---------------------------- MODULE Spec2Model ----------------------------
(***************************************************************************)
(* Portal-Upravnik: the persistence layer of src/storageUtils.js           *)
(* (loadFromStorage / saveToStorage, the key builders, the entity          *)
(* accessors) on top of a localStorage backend, together with the          *)
(* JavaScript conversions the code relies on (JSON.stringify, JSON.parse,  *)
(* String, Number, truthiness).                                            *)
(***************************************************************************)
EXTENDS Integers, Sequences, FiniteSets, TLC

VARIABLES store, origin, last, clock, calls, saved

vars == <<store, origin, last, clock, calls, saved>>

(***************************************************************************)
(* JavaScript values.  Every value is a record of one shape, so that any   *)
(* two values can be compared:                                             *)
(*   t  the type tag                                                       *)
(*   n  a number, in tenths (so 150.5 is n = 1505); a boolean as 0 / 1     *)
(*   s  a string; for a number its non-finite kind ("NaN", "Infinity",     *)
(*      "-Infinity", or "" when finite); for an object entry its key       *)
(*   a  the elements of an array; the entries of an object, in insertion   *)
(*      order; the value of an object entry (a one-element sequence)       *)
(***************************************************************************)
JS(t, n, s, a) == [t |-> t, n |-> n, s |-> s, a |-> a]

Undefined == JS("undefined", 0, "", <<>>)

Null == JS("null", 0, "", <<>>)

False == JS("bool", 0, "", <<>>)

True == JS("bool", 1, "", <<>>)

Bool(b) == IF b THEN True ELSE False

\* A finite number given in tenths.
Tenths(k) == JS("num", k, "", <<>>)

\* A finite integer.
Num(i) == Tenths(i * 10)

NaN == JS("num", 0, "NaN", <<>>)

Infinity == JS("num", 0, "Infinity", <<>>)

NegInfinity == JS("num", 0, "-Infinity", <<>>)

Str(s) == JS("str", 0, s, <<>>)

Arr(elems) == JS("arr", 0, "", elems)

Entry(k, v) == JS("entry", 0, k, <<v>>)

Obj(entries) == JS("obj", 0, "", entries)

IsEntry(e) == e.t = "entry"

IsElement(e) == e.t # "entry"

\* The elements of an array, without the named properties assigned to it.
Elements(v) == SelectSeq(v.a, IsElement)

IsFinite(v) == v.t = "num" /\ v.s = ""

IsNullish(v) == v.t \in {"undefined", "null"}

\* !!v
Truthy(v) ==
  CASE v.t \in {"undefined", "null"} -> FALSE
    [] v.t = "bool" -> v.n = 1
    [] v.t = "num" -> IF v.s = "" THEN v.n # 0 ELSE v.s # "NaN"
    [] v.t = "str" -> v.s # ""
    [] OTHER -> TRUE

\* a || b
Or(a, b) == IF Truthy(a) THEN a ELSE b

\* a ?? b
Coalesce(a, b) == IF IsNullish(a) THEN b ELSE a

(***************************************************************************)
(* Strings.                                                                *)
(***************************************************************************)
Ch(s, i) == IF i >= 1 /\ i <= Len(s) THEN SubSeq(s, i, i) ELSE ""

StartsAt(s, i, lit) ==
  /\ i >= 1
  /\ i + Len(lit) - 1 <= Len(s)
  /\ SubSeq(s, i, i + Len(lit) - 1) = lit

From(s, i) == IF i > Len(s) THEN "" ELSE SubSeq(s, i, Len(s))

DigitChars == "0123456789"

IsDigit(c) == c # "" /\ \E k \in 1..10 : Ch(DigitChars, k) = c

DigitVal(c) == (CHOOSE k \in 1..10 : Ch(DigitChars, k) = c) - 1

DigitStr(k) == Ch(DigitChars, k + 1)

RECURSIVE NatToString(_)
NatToString(k) ==
  IF k < 10 THEN DigitStr(k) ELSE NatToString(k \div 10) \o DigitStr(k % 10)

\* Number.prototype.toString for the numbers of the model.
NumberToString(v) ==
  IF v.s # "" THEN v.s
  ELSE LET m == IF v.n < 0 THEN 0 - v.n ELSE v.n
           body == NatToString(m \div 10)
                     \o (IF m % 10 = 0 THEN "" ELSE "." \o DigitStr(m % 10))
       IN IF v.n < 0 THEN "-" \o body ELSE body

RECURSIVE SkipWs(_, _)
SkipWs(s, i) == IF Ch(s, i) = " " THEN SkipWs(s, i + 1) ELSE i

RECURSIVE TrimEnd(_)
TrimEnd(s) ==
  IF Len(s) > 0 /\ Ch(s, Len(s)) = " " THEN TrimEnd(SubSeq(s, 1, Len(s) - 1)) ELSE s

Trim(s) == TrimEnd(From(s, SkipWs(s, 1)))

\* The index after the run of digits that starts at i.
RECURSIVE DigitsEnd(_, _)
DigitsEnd(s, i) == IF IsDigit(Ch(s, i)) THEN DigitsEnd(s, i + 1) ELSE i

\* The value of the digits s[i..j-1].
RECURSIVE DigitsVal(_, _, _)
DigitsVal(s, i, j) ==
  IF i >= j THEN 0 ELSE DigitsVal(s, i, j - 1) * 10 + DigitVal(Ch(s, j - 1))

(***************************************************************************)
(* A decimal literal at s[i..]: digits with an optional fraction of one    *)
(* digit (the numbers of the model are tenths).  leading0 says whether     *)
(* "007" is a literal (Number) or not (JSON).  The result is the value in  *)
(* tenths and the index after the literal, or ok = FALSE.                  *)
(***************************************************************************)
Decimal(s, i, leading0) ==
  LET j == DigitsEnd(s, i)
      hasFrac == Ch(s, j) = "." /\ IsDigit(Ch(s, j + 1)) /\ ~IsDigit(Ch(s, j + 2))
      int == DigitsVal(s, i, j)
  IN IF j = i \/ (~leading0 /\ j > i + 1 /\ Ch(s, i) = "0")
       THEN [ok |-> FALSE, n |-> 0, i |-> i]
       ELSE IF hasFrac
              THEN [ok |-> TRUE, n |-> int * 10 + DigitVal(Ch(s, j + 1)), i |-> j + 2]
              ELSE [ok |-> TRUE, n |-> int * 10, i |-> j]

\* Number(string): StringToNumber.
StringToNumber(str) ==
  LET s == Trim(str)
      neg == Ch(s, 1) = "-"
      i == IF Ch(s, 1) \in {"-", "+"} THEN 2 ELSE 1
      d == Decimal(s, i, TRUE)
  IN IF s = "" THEN Num(0)
     ELSE IF From(s, i) = "Infinity" THEN (IF neg THEN NegInfinity ELSE Infinity)
     ELSE IF d.ok /\ d.i = Len(s) + 1 THEN Tenths(IF neg THEN 0 - d.n ELSE d.n)
     ELSE NaN

\* String(v)
RECURSIVE ToStr(_)
RECURSIVE Join(_, _)
ToStr(v) ==
  CASE v.t = "undefined" -> "undefined"
    [] v.t = "null" -> "null"
    [] v.t = "bool" -> IF v.n = 1 THEN "true" ELSE "false"
    [] v.t = "num" -> NumberToString(v)
    [] v.t = "str" -> v.s
    [] v.t = "arr" -> Join(Elements(v), 1)
    [] OTHER -> "[object Object]"

\* Array.prototype.join(","): null and undefined elements give "".
Join(elems, i) ==
  IF i > Len(elems) THEN ""
  ELSE (IF IsNullish(elems[i]) THEN "" ELSE ToStr(elems[i]))
         \o (IF i < Len(elems) THEN "," ELSE "")
         \o Join(elems, i + 1)

\* Number(v)
ToNumber(v) ==
  CASE v.t = "undefined" -> NaN
    [] v.t = "null" -> Num(0)
    [] v.t = "bool" -> Num(v.n)
    [] v.t = "num" -> v
    [] OTHER -> StringToNumber(ToStr(v))


(***************************************************************************)
(* JSON.stringify.                                                         *)
(***************************************************************************)
\* The characters of s from i on, with " and \ escaped.
RECURSIVE Escape(_, _)
Escape(s, i) ==
  IF i > Len(s) THEN ""
  ELSE (IF Ch(s, i) \in {"\"", "\\"} THEN "\\" ELSE "") \o Ch(s, i) \o Escape(s, i + 1)

Quote(s) == "\"" \o Escape(s, 1) \o "\""

\* The JSON text of a value that has one (anything but undefined).
RECURSIVE Serialize(_)
RECURSIVE SerializeElems(_, _)
RECURSIVE SerializeEntries(_, _, _)
Serialize(v) ==
  CASE v.t = "null" -> "null"
    [] v.t = "bool" -> IF v.n = 1 THEN "true" ELSE "false"
    [] v.t = "num" -> IF IsFinite(v) THEN NumberToString(v) ELSE "null"
    [] v.t = "str" -> Quote(v.s)
    [] v.t = "arr" -> "[" \o SerializeElems(Elements(v), 1) \o "]"
    [] v.t = "obj" -> "{" \o SerializeEntries(v.a, 1, TRUE) \o "}"
    [] OTHER -> "null"

\* An undefined element of an array is written as null.
SerializeElems(elems, i) ==
  IF i > Len(elems) THEN ""
  ELSE (IF i > 1 THEN "," ELSE "")
         \o (IF elems[i].t = "undefined" THEN "null" ELSE Serialize(elems[i]))
         \o SerializeElems(elems, i + 1)

\* An entry of an object whose value is undefined is left out.
SerializeEntries(entries, i, first) ==
  IF i > Len(entries) THEN ""
  ELSE IF entries[i].a[1].t = "undefined" THEN SerializeEntries(entries, i + 1, first)
  ELSE (IF first THEN "" ELSE ",")
         \o Quote(entries[i].s) \o ":" \o Serialize(entries[i].a[1])
         \o SerializeEntries(entries, i + 1, FALSE)

\* JSON.stringify(v): a string, or undefined for undefined.
JSONstringify(v) == IF v.t = "undefined" THEN Undefined ELSE Str(Serialize(v))

(***************************************************************************)
(* JSON.parse: a recursive-descent parser of the JSON grammar.  Each       *)
(* parser returns [ok, v, i]: whether a value was read at index i, the     *)
(* value, and the index after it.                                          *)
(***************************************************************************)
NoParse == [ok |-> FALSE, v |-> Undefined, i |-> 0]

Parsed(v, i) == [ok |-> TRUE, v |-> v, i |-> i]

\* The body of a string literal from i on, up to the closing quote.
RECURSIVE ParseChars(_, _, _)
ParseChars(s, i, acc) ==
  IF i > Len(s) THEN NoParse
  ELSE IF Ch(s, i) = "\"" THEN Parsed(Str(acc), i + 1)
  ELSE IF Ch(s, i) = "\\"
         THEN IF Ch(s, i + 1) \in {"\"", "\\"}
                THEN ParseChars(s, i + 2, acc \o Ch(s, i + 1))
                ELSE NoParse
  ELSE ParseChars(s, i + 1, acc \o Ch(s, i))

ParseNumber(s, i) ==
  LET neg == Ch(s, i) = "-"
      d == Decimal(s, IF neg THEN i + 1 ELSE i, FALSE)
  IN IF d.ok THEN Parsed(Tenths(IF neg THEN 0 - d.n ELSE d.n), d.i) ELSE NoParse

RECURSIVE ParseValue(_, _)
RECURSIVE ParseElems(_, _, _)
RECURSIVE ParseMembers(_, _, _)
ParseValue(s, i0) ==
  LET i == SkipWs(s, i0)
      c == Ch(s, i)
  IN CASE StartsAt(s, i, "null") -> Parsed(Null, i + 4)
       [] StartsAt(s, i, "true") -> Parsed(True, i + 4)
       [] StartsAt(s, i, "false") -> Parsed(False, i + 5)
       [] c = "\"" -> ParseChars(s, i + 1, "")
       [] c = "-" \/ IsDigit(c) -> ParseNumber(s, i)
       [] c = "[" ->
            IF Ch(s, SkipWs(s, i + 1)) = "]"
              THEN Parsed(Arr(<<>>), SkipWs(s, i + 1) + 1)
              ELSE ParseElems(s, i + 1, <<>>)
       [] c = "{" ->
            IF Ch(s, SkipWs(s, i + 1)) = "}"
              THEN Parsed(Obj(<<>>), SkipWs(s, i + 1) + 1)
              ELSE ParseMembers(s, i + 1, <<>>)
       [] OTHER -> NoParse

\* value ("," value)* "]"
ParseElems(s, i, acc) ==
  LET e == ParseValue(s, i)
      j == SkipWs(s, e.i)
  IN IF ~e.ok THEN NoParse
     ELSE IF Ch(s, j) = "," THEN ParseElems(s, j + 1, Append(acc, e.v))
     ELSE IF Ch(s, j) = "]" THEN Parsed(Arr(Append(acc, e.v)), j + 1)
     ELSE NoParse

\* The entries with a later entry of the same key replacing the earlier one.
PutEntry(entries, k, v) ==
  IF \E x \in 1..Len(entries) : entries[x].t = "entry" /\ entries[x].s = k
    THEN [x \in 1..Len(entries) |->
            IF entries[x].t = "entry" /\ entries[x].s = k
              THEN Entry(k, v)
              ELSE entries[x]]
    ELSE Append(entries, Entry(k, v))

\* string ":" value ("," string ":" value)* "}"
ParseMembers(s, i0, acc) ==
  LET i == SkipWs(s, i0)
      k == IF Ch(s, i) = "\"" THEN ParseChars(s, i + 1, "") ELSE NoParse
      c == SkipWs(s, k.i)
      e == IF k.ok /\ Ch(s, c) = ":" THEN ParseValue(s, c + 1) ELSE NoParse
      j == SkipWs(s, e.i)
  IN IF ~e.ok THEN NoParse
     ELSE IF Ch(s, j) = "," THEN ParseMembers(s, j + 1, PutEntry(acc, k.v.s, e.v))
     ELSE IF Ch(s, j) = "}" THEN Parsed(Obj(PutEntry(acc, k.v.s, e.v)), j + 1)
     ELSE NoParse

\* JSON.parse(text): [threw, v].  A SyntaxError unless the whole text is one value.
JSONparse(text) ==
  LET r == ParseValue(text, 1)
  IN IF r.ok /\ SkipWs(text, r.i) = Len(text) + 1
       THEN [threw |-> FALSE, v |-> r.v]
       ELSE [threw |-> TRUE, v |-> Undefined]


(***************************************************************************)
(* Properties.  An object holds entries; an array holds its elements and,  *)
(* after them, any named property assigned to it.                          *)
(***************************************************************************)
\* v[k] for a property name k that is no built-in of the value.
GetProp(v, k) ==
  IF v.t \in {"obj", "arr"} /\ \E x \in 1..Len(v.a) : IsEntry(v.a[x]) /\ v.a[x].s = k
    THEN v.a[CHOOSE x \in 1..Len(v.a) : IsEntry(v.a[x]) /\ v.a[x].s = k].a[1]
    ELSE Undefined

\* v[k] = x, as a non-strict script does it: a primitive is left as it is.
SetProp(v, k, x) ==
  IF v.t \in {"obj", "arr"} THEN [v EXCEPT !.a = PutEntry(v.a, k, x)] ELSE v

(***************************************************************************)
(* The backend: localStorage, a map from key strings to strings.  A call   *)
(* of an accessor runs against a backend that works (fault "none"), whose  *)
(* getItem raises (fault "get") or whose setItem raises, as on an exceeded *)
(* quota (fault "set").  A rejected write leaves the map as it was.        *)
(***************************************************************************)
Faults == {"none", "get", "set"}

NoStore == [k \in {} |-> ""]

Has(st, key) == key \in DOMAIN st

Put(st, key, text) ==
  [k \in DOMAIN st \cup {key} |-> IF k = key THEN text ELSE st[k]]

\* localStorage.getItem(key): [threw, v], v the string or null.
getItem(st, key, fault) ==
  [threw |-> fault = "get", v |-> IF Has(st, key) THEN Str(st[key]) ELSE Null]

\* localStorage.setItem(key, value): [threw, st]; the value is stored as String(value).
setItem(st, key, value, fault) ==
  [threw |-> fault = "set",
   st |-> IF fault = "set" THEN st ELSE Put(st, key, ToStr(value))]

\* The outcome of a call: the value returned, or an exception raised to the
\* caller, and the backend after the call.
Return(v, st) == [ret |-> v, threw |-> FALSE, st |-> st]

Throw(st) == [ret |-> Undefined, threw |-> TRUE, st |-> st]

(***************************************************************************)
(* The generic adapter.                                                    *)
(***************************************************************************)
\* A parameter with a default takes it when the argument is undefined.
Param(arg, dflt) == IF arg = Undefined THEN dflt ELSE arg

\* loadFromStorage with `parsed || defaultValue` in place of the null test.
loadFromStorage_falsy(st, key, defaultArg, seedArg, fault) ==
  LET defaultValue == Param(defaultArg, Arr(<<>>))
      seedValue == Param(seedArg, Null)
      got == getItem(st, key, fault)
      raw == got.v
      put == setItem(st, key, JSONstringify(seedValue), fault)
      parsed == JSONparse(raw.s)
  IN IF got.threw THEN Return(defaultValue, st)
     ELSE IF ~Truthy(raw)
       THEN IF seedValue # Null
              THEN IF put.threw THEN Return(defaultValue, st)
                                ELSE Return(seedValue, put.st)
              ELSE Return(defaultValue, st)
     ELSE IF parsed.threw THEN Return(defaultValue, st)
     ELSE Return(Or(parsed.v, defaultValue), st)

\* loadFromStorage that returns the seed without writing it.
loadFromStorage_noSeedWrite(st, key, defaultArg, seedArg, fault) ==
  LET defaultValue == Param(defaultArg, Arr(<<>>))
      seedValue == Param(seedArg, Null)
      got == getItem(st, key, fault)
      raw == got.v
      parsed == JSONparse(raw.s)
  IN IF got.threw THEN Return(defaultValue, st)
     ELSE IF ~Truthy(raw)
       THEN IF seedValue # Null THEN Return(seedValue, st)
                                ELSE Return(defaultValue, st)
     ELSE IF parsed.threw THEN Return(defaultValue, st)
     ELSE Return(IF ~IsNullish(parsed.v) THEN parsed.v ELSE defaultValue, st)

\* loadFromStorage that writes the default when nothing is stored.
loadFromStorage_persistDefault(st, key, defaultArg, seedArg, fault) ==
  LET defaultValue == Param(defaultArg, Arr(<<>>))
      seedValue == Param(seedArg, Null)
      got == getItem(st, key, fault)
      raw == got.v
      first == IF seedValue # Null THEN seedValue ELSE defaultValue
      put == setItem(st, key, JSONstringify(first), fault)
      parsed == JSONparse(raw.s)
  IN IF got.threw THEN Return(defaultValue, st)
     ELSE IF ~Truthy(raw)
       THEN IF put.threw THEN Return(defaultValue, st) ELSE Return(first, put.st)
     ELSE IF parsed.threw THEN Return(defaultValue, st)
     ELSE Return(IF ~IsNullish(parsed.v) THEN parsed.v ELSE defaultValue, st)

\* loadFromStorage with JSON.parse outside the try block.
loadFromStorage_parseUncaught(st, key, defaultArg, seedArg, fault) ==
  LET defaultValue == Param(defaultArg, Arr(<<>>))
      seedValue == Param(seedArg, Null)
      got == getItem(st, key, fault)
      raw == got.v
      put == setItem(st, key, JSONstringify(seedValue), fault)
      parsed == JSONparse(raw.s)
  IN IF got.threw THEN Return(defaultValue, st)
     ELSE IF ~Truthy(raw)
       THEN IF seedValue # Null
              THEN IF put.threw THEN Return(defaultValue, st)
                                ELSE Return(seedValue, put.st)
              ELSE Return(defaultValue, st)
     ELSE IF parsed.threw THEN Throw(st)
     ELSE Return(IF ~IsNullish(parsed.v) THEN parsed.v ELSE defaultValue, st)

\* loadFromStorage that looks at the seed before it looks at the backend.
loadFromStorage_seedFirst(st, key, defaultArg, seedArg, fault) ==
  LET defaultValue == Param(defaultArg, Arr(<<>>))
      seedValue == Param(seedArg, Null)
      got == getItem(st, key, fault)
      raw == got.v
      put == setItem(st, key, JSONstringify(seedValue), fault)
      parsed == JSONparse(raw.s)
  IN IF seedValue # Null
       THEN IF put.threw THEN Return(defaultValue, st)
                         ELSE Return(seedValue, put.st)
     ELSE IF got.threw THEN Return(defaultValue, st)
     ELSE IF ~Truthy(raw) THEN Return(defaultValue, st)
     ELSE IF parsed.threw THEN Return(defaultValue, st)
     ELSE Return(IF ~IsNullish(parsed.v) THEN parsed.v ELSE defaultValue, st)

\* loadFromStorage that takes a falsy stored value for a missing one.
loadFromStorage_reseedFalsy(st, key, defaultArg, seedArg, fault) ==
  LET defaultValue == Param(defaultArg, Arr(<<>>))
      seedValue == Param(seedArg, Null)
      got == getItem(st, key, fault)
      raw == got.v
      put == setItem(st, key, JSONstringify(seedValue), fault)
      parsed == JSONparse(raw.s)
  IN IF got.threw THEN Return(defaultValue, st)
     ELSE IF ~Truthy(raw) \/ (~parsed.threw /\ ~Truthy(parsed.v))
       THEN IF seedValue # Null
              THEN IF put.threw THEN Return(defaultValue, st)
                                ELSE Return(seedValue, put.st)
              ELSE Return(defaultValue, st)
     ELSE IF parsed.threw THEN Return(defaultValue, st)
     ELSE Return(IF ~IsNullish(parsed.v) THEN parsed.v ELSE defaultValue, st)

loadFromStorage(st, key, defaultArg, seedArg, fault) ==
  LET defaultValue == Param(defaultArg, Arr(<<>>))
      seedValue == Param(seedArg, Null)
      got == getItem(st, key, fault)
      raw == got.v
      put == setItem(st, key, JSONstringify(seedValue), fault)
      parsed == JSONparse(raw.s)
  IN IF got.threw THEN Return(defaultValue, st)
     ELSE IF ~Truthy(raw)
       THEN IF seedValue # Null
              THEN IF put.threw THEN Return(defaultValue, st)
                                ELSE Return(seedValue, put.st)
              ELSE Return(defaultValue, st)
     ELSE IF parsed.threw THEN Return(defaultValue, st)
     ELSE Return(IF ~IsNullish(parsed.v) THEN parsed.v ELSE defaultValue, st)

\* saveToStorage without its try / catch.
saveToStorage_uncaught(st, key, value, fault) ==
  LET put == setItem(st, key, JSONstringify(value), fault)
  IN IF put.threw THEN Throw(st) ELSE Return(True, put.st)

\* saveToStorage that keeps the fields of a stored object the new one lacks.
RECURSIVE MergeEntries(_, _, _)
MergeEntries(old, new, i) ==
  IF i > Len(new) THEN old
  ELSE MergeEntries(PutEntry(old, new[i].s, new[i].a[1]), new, i + 1)

saveToStorage_merge(st, key, value, fault) ==
  LET old == IF Has(st, key) THEN JSONparse(st[key]) ELSE JSONparse("")
      merged == IF value.t = "obj" /\ ~old.threw /\ old.v.t = "obj"
                  THEN Obj(MergeEntries(old.v.a, value.a, 1))
                  ELSE value
      put == setItem(st, key, JSONstringify(merged), fault)
  IN IF put.threw THEN Return(False, st) ELSE Return(True, put.st)

saveToStorage(st, key, value, fault) ==
  LET put == setItem(st, key, JSONstringify(value), fault)
  IN IF put.threw THEN Return(False, st) ELSE Return(True, put.st)


(***************************************************************************)
(* The rosters.                                                            *)
(***************************************************************************)
KEY_BUILDINGS_DB == "pu_buildings_db_v1"

KEY_USERS_DB == "PORTAL_USERS_DB"

loadBuildingsDB(st, fault) ==
  loadFromStorage(st, KEY_BUILDINGS_DB, Arr(<<>>), Undefined, fault)

saveBuildingsDB(st, rows, fault) == saveToStorage(st, KEY_BUILDINGS_DB, rows, fault)

loadUsersDB(st, fault) == loadFromStorage(st, KEY_USERS_DB, Arr(<<>>), Undefined, fault)

saveUsersDB(st, rows, fault) ==
  saveToStorage(st, KEY_USERS_DB, Or(rows, Arr(<<>>)), fault)

(***************************************************************************)
(* Dues.  now is the month of the call, as year * 12 + getMonth().         *)
(***************************************************************************)
kDues(bid) == "pu_dues_v1__" \o bid

\* String.prototype.padStart(2, "0")
PadStart2(s) == IF Len(s) < 2 THEN "0" \o s ELSE s

\* `${now.getFullYear()}-${String(now.getMonth() + 1).padStart(2, "0")}`
YearMonth(now) ==
  NatToString(now \div 12) \o "-" \o PadStart2(NatToString((now % 12) + 1))

DuesSeed(startMonth) ==
  Obj(<<Entry("monthlyFee", Num(2000)),
        Entry("startMonth", Str(startMonth)),
        Entry("paymentsByUser", Obj(<<>>))>>)

\* The normalization that takes the whole default record when a field is missing.
NormalizeDues_allOrNothing(data, startMonth) ==
  IF \/ GetProp(data, "monthlyFee") = Undefined
     \/ GetProp(data, "startMonth") = Undefined
     \/ GetProp(data, "paymentsByUser") = Undefined
    THEN DuesSeed(startMonth)
    ELSE SetProp(SetProp(data, "monthlyFee", ToNumber(GetProp(data, "monthlyFee"))),
                 "startMonth", Str(ToStr(GetProp(data, "startMonth"))))

\* The three assignments that normalize data.
NormalizeDues(data, startMonth) ==
  LET d1 == SetProp(data, "monthlyFee",
                    ToNumber(Coalesce(GetProp(data, "monthlyFee"), Num(2000))))
      d2 == SetProp(d1, "startMonth",
                    Str(ToStr(Or(GetProp(d1, "startMonth"), Str(startMonth)))))
  IN SetProp(d2, "paymentsByUser", Or(GetProp(d2, "paymentsByUser"), Obj(<<>>)))

\* loadDues that saves the record it has normalized.
loadDues_persistRepair(st, bid, now, fault) ==
  LET startMonth == YearMonth(now)
      defaultSeed == DuesSeed(startMonth)
      r == loadFromStorage(st, kDues(bid), Null, defaultSeed, fault)
      data == NormalizeDues(r.ret, startMonth)
  IN IF ~Truthy(r.ret) THEN Return(defaultSeed, r.st)
     ELSE Return(data, saveToStorage(r.st, kDues(bid), data, fault).st)

\* loadDues that sets startMonth to the month of the call.
loadDues_currentMonth(st, bid, now, fault) ==
  LET startMonth == YearMonth(now)
      defaultSeed == DuesSeed(startMonth)
      r == loadFromStorage(st, kDues(bid), Null, defaultSeed, fault)
  IN IF ~Truthy(r.ret) THEN Return(defaultSeed, r.st)
     ELSE Return(SetProp(NormalizeDues(r.ret, startMonth), "startMonth", Str(startMonth)),
                 r.st)

loadDues(st, bid, now, fault) ==
  LET startMonth == YearMonth(now)
      defaultSeed == DuesSeed(startMonth)
      r == loadFromStorage(st, kDues(bid), Null, defaultSeed, fault)
  IN IF ~Truthy(r.ret) THEN Return(defaultSeed, r.st)
     ELSE Return(NormalizeDues(r.ret, startMonth), r.st)

saveDues(st, bid, obj, fault) == saveToStorage(st, kDues(bid), obj, fault)

(***************************************************************************)
(* Finance items, firms, board posts, forum proposals.                     *)
(***************************************************************************)
kFinanceItems(bid) == "pu_finance_items_v3__" \o bid

loadItems(st, bid, seedData, fault) ==
  loadFromStorage(st, kFinanceItems(bid), Arr(<<>>), Param(seedData, Null), fault)

saveItems(st, bid, items, fault) == saveToStorage(st, kFinanceItems(bid), items, fault)

\* kFirms with the prefix of the finance items.
kFirms_itemsPrefix(bid) == "pu_finance_items_v3__" \o bid

kFirms(bid) == "pu_finance_firms_v3__" \o bid

loadFirms(st, bid, seedData, fault) ==
  loadFromStorage(st, kFirms(bid), Arr(<<>>), Param(seedData, Null), fault)

saveFirms(st, bid, firms, fault) == saveToStorage(st, kFirms(bid), firms, fault)

kBoard(bid) == "pu_board_posts_v2__" \o bid

loadBoardPosts(st, bid, seedData, fault) ==
  loadFromStorage(st, kBoard(bid), Arr(<<>>), Param(seedData, Null), fault)

saveBoardPosts(st, bid, items, fault) == saveToStorage(st, kBoard(bid), items, fault)

kForum(bid) == "pu_forum_proposals_v2__" \o bid

loadProposals(st, bid, seedData, fault) ==
  loadFromStorage(st, kForum(bid), Arr(<<>>), Param(seedData, Null), fault)

saveProposals(st, bid, items, fault) == saveToStorage(st, kForum(bid), items, fault)

(***************************************************************************)
(* Opening balance: a raw numeric string, read and written without the     *)
(* generic adapter.                                                        *)
(***************************************************************************)
kOpeningBalance(bid) == "pu_opening_balance__" \o bid

\* loadOpeningBalance with `Number(raw)` in place of `Number(raw) || 0`.
loadOpeningBalance_noFallback(st, bid, fault) ==
  LET got == getItem(st, kOpeningBalance(bid), fault)
      raw == got.v
      seed == Num(0)
      put == setItem(st, kOpeningBalance(bid), Str(ToStr(seed)), fault)
  IN IF got.threw THEN Throw(st)
     ELSE IF ~Truthy(raw)
       THEN IF put.threw THEN Throw(st) ELSE Return(seed, put.st)
     ELSE Return(ToNumber(raw), st)

\* loadOpeningBalance that drops the fraction of the number it reads.
loadOpeningBalance_truncating(st, bid, fault) ==
  LET got == getItem(st, kOpeningBalance(bid), fault)
      raw == got.v
      seed == Num(0)
      put == setItem(st, kOpeningBalance(bid), Str(ToStr(seed)), fault)
      read == ToNumber(raw)
      whole == IF IsFinite(read)
                 THEN (IF read.n < 0 THEN Num(0 - ((0 - read.n) \div 10))
                                     ELSE Num(read.n \div 10))
                 ELSE read
  IN IF got.threw THEN Throw(st)
     ELSE IF ~Truthy(raw)
       THEN IF put.threw THEN Throw(st) ELSE Return(seed, put.st)
     ELSE Return(Or(whole, Num(0)), st)

loadOpeningBalance(st, bid, fault) ==
  LET got == getItem(st, kOpeningBalance(bid), fault)
      raw == got.v
      seed == Num(0)
      put == setItem(st, kOpeningBalance(bid), Str(ToStr(seed)), fault)
  IN IF got.threw THEN Throw(st)
     ELSE IF ~Truthy(raw)
       THEN IF put.threw THEN Throw(st) ELSE Return(seed, put.st)
     ELSE Return(Or(ToNumber(raw), Num(0)), st)

saveOpeningBalance(st, bid, val, fault) ==
  LET put == setItem(st, kOpeningBalance(bid),
                     Str(ToStr(ToNumber(Or(val, Num(0))))), fault)
  IN IF put.threw THEN Return(False, st) ELSE Return(True, put.st)

(***************************************************************************)
(* Read tracking.                                                          *)
(***************************************************************************)
kRead(bid, kind) == "pu_read_" \o kind \o "__" \o bid

loadReadMap(st, bid, kind, fault) ==
  loadFromStorage(st, kRead(bid, kind), Obj(<<>>), Undefined, fault)

saveReadMap(st, bid, kind, map, fault) == saveToStorage(st, kRead(bid, kind), map, fault)

(***************************************************************************)
(* State.                                                                  *)
(*   store   the backend: the string stored under each key that has one    *)
(*   origin  for each stored key, the call that wrote its current string   *)
(*           ("stored": it was there before the program ran) and the value *)
(*           that call was given                                           *)
(*   last    the most recent call: its arguments, the backend fault it ran *)
(*           under, its outcome, what was under its key before it, and the *)
(*           keys it wrote                                                 *)
(*   clock   the current month, as year * 12 + (month - 1)                 *)
(*   calls   the number of calls made so far                               *)
(*   saved   the values given to the saves that succeeded, in call order,  *)
(*           where the calls of a run all use one key                      *)
(***************************************************************************)
Source(by, val) == [by |-> by, val |-> val]

NoSource == Source("none", Undefined)

\* The keys under which two backends differ.
Changed(st1, st2) ==
  {k \in DOMAIN st1 \cup DOMAIN st2 :
     ~(Has(st1, k) /\ Has(st2, k) /\ st1[k] = st2[k])}

\* The record of a call with outcome r, made on backend st with origins o:
\*   was, src  what getItem(key) would have given before the call, and the
\*             origin of that string
\*   wrote     the keys whose content the call changed
Call(op, key, bid, kind, v, d, s, fault, r, st, o) ==
  [op |-> op, key |-> key, bid |-> bid, kind |-> kind, v |-> v, d |-> d, s |-> s,
   fault |-> fault, ret |-> r.ret, threw |-> r.threw,
   was |-> IF Has(st, key) THEN Str(st[key]) ELSE Null,
   src |-> IF Has(o, key) THEN o[key] ELSE NoSource,
   wrote |-> Changed(st, r.st)]

NoCall ==
  Call("none", "", "", "", Undefined, Undefined, Undefined, "none",
       Return(Undefined, NoStore), NoStore, NoStore)

Mark(o, key, by, val) ==
  [k \in DOMAIN o \cup {key} |-> IF k = key THEN Source(by, val) ELSE o[k]]

\* The backends the program can find when it starts: any of the keys may hold
\* a string written earlier.
Stores(keys, payloads) == UNION {[S -> payloads] : S \in SUBSET keys}

Stored(st) == [k \in DOMAIN st |-> Source("stored", Undefined)]

(***************************************************************************)
(* The generic adapter on its own: calls of loadFromStorage and            *)
(* saveToStorage on two keys.                                              *)
(***************************************************************************)
Keys == {"k1", "k2"}

\* Strings found under a key that no save of the adapter wrote: empty, not
\* JSON, JSON null, a JSON array inside white space.
RawPayloads == {"", "{bad", "null", " [7] "}

Values ==
  {Undefined, Null, Num(0), NaN, Str(""), Arr(<<Tenths(1505), Null>>),
   Obj(<<Entry("a", Num(1)), Entry("b", Str("x\"y"))>>)}

Defaults == {Undefined, Str("d1"), Arr(<<Str("d2")>>)}

Seeds == {Undefined, Null, Num(0), Arr(<<Obj(<<Entry("id", Num(1))>>)>>)}

InitAdapter ==
  /\ store \in Stores(Keys, RawPayloads)
  /\ origin = Stored(store)
  /\ last = NoCall
  /\ clock = 0
  /\ calls = 0
  /\ saved = <<>>

\* A call of op with outcome r: the backend and the record of the call
\* change; wrote says whether the call stored value w under its key.
Step(op, key, bid, kind, v, d, s, fault, wrote, w, r) ==
  /\ store' = r.st
  /\ origin' = IF wrote THEN Mark(origin, key, op, w) ELSE origin
  /\ last' = Call(op, key, bid, kind, v, d, s, fault, r, store, origin)
  /\ UNCHANGED clock

\* A load stored its seed if it changed what is under its key.
Seeded(key, r) == key \in Changed(store, r.st)

LoadFromStorage(key, d, s, fault) ==
  \E r \in {loadFromStorage(store, key, d, s, fault)} :
    Step("loadFromStorage", key, "", "", Undefined, d, s, fault,
         Seeded(key, r), Param(s, Null), r)

SaveToStorage(key, v, fault) ==
  \E r \in {saveToStorage(store, key, v, fault)} :
    Step("saveToStorage", key, "", "", v, Undefined, Undefined, fault,
         r.ret = True, v, r)

NextAdapter ==
  \/ \E key \in Keys, d \in Defaults, s \in Seeds, fault \in Faults :
       LoadFromStorage(key, d, s, fault) /\ UNCHANGED <<calls, saved>>
  \/ \E key \in Keys, v \in Values, fault \in {"none", "set"} :
       SaveToStorage(key, v, fault) /\ UNCHANGED <<calls, saved>>

Spec == InitAdapter /\ [][NextAdapter]_vars

(***************************************************************************)
(* The entity accessors, one action each.                                  *)
(***************************************************************************)
LoadBuildingsDB(fault) ==
  \E r \in {loadBuildingsDB(store, fault)} :
    Step("loadBuildingsDB", KEY_BUILDINGS_DB, "", "", Undefined, Arr(<<>>), Undefined,
         fault, Seeded(KEY_BUILDINGS_DB, r), Undefined, r)

SaveBuildingsDB(rows, fault) ==
  \E r \in {saveBuildingsDB(store, rows, fault)} :
    Step("saveBuildingsDB", KEY_BUILDINGS_DB, "", "", rows, Undefined, Undefined,
         fault, r.ret = True, rows, r)

LoadUsersDB(fault) ==
  \E r \in {loadUsersDB(store, fault)} :
    Step("loadUsersDB", KEY_USERS_DB, "", "", Undefined, Arr(<<>>), Undefined,
         fault, Seeded(KEY_USERS_DB, r), Undefined, r)

SaveUsersDB(rows, fault) ==
  \E r \in {saveUsersDB(store, rows, fault)} :
    Step("saveUsersDB", KEY_USERS_DB, "", "", rows, Undefined, Undefined,
         fault, r.ret = True, Or(rows, Arr(<<>>)), r)

LoadDues(bid, fault) ==
  \E r \in {loadDues(store, bid, clock, fault)} :
    Step("loadDues", kDues(bid), bid, "", Undefined, Null, DuesSeed(YearMonth(clock)),
         fault, Seeded(kDues(bid), r), DuesSeed(YearMonth(clock)), r)

SaveDues(bid, obj, fault) ==
  \E r \in {saveDues(store, bid, obj, fault)} :
    Step("saveDues", kDues(bid), bid, "", obj, Undefined, Undefined,
         fault, r.ret = True, obj, r)

LoadItems(bid, seedData, fault) ==
  \E r \in {loadItems(store, bid, seedData, fault)} :
    Step("loadItems", kFinanceItems(bid), bid, "", Undefined, Arr(<<>>), seedData,
         fault, Seeded(kFinanceItems(bid), r), seedData, r)

SaveItems(bid, items, fault) ==
  \E r \in {saveItems(store, bid, items, fault)} :
    Step("saveItems", kFinanceItems(bid), bid, "", items, Undefined, Undefined,
         fault, r.ret = True, items, r)

LoadFirms(bid, seedData, fault) ==
  \E r \in {loadFirms(store, bid, seedData, fault)} :
    Step("loadFirms", kFirms(bid), bid, "", Undefined, Arr(<<>>), seedData,
         fault, Seeded(kFirms(bid), r), seedData, r)

SaveFirms(bid, firms, fault) ==
  \E r \in {saveFirms(store, bid, firms, fault)} :
    Step("saveFirms", kFirms(bid), bid, "", firms, Undefined, Undefined,
         fault, r.ret = True, firms, r)

LoadBoardPosts(bid, seedData, fault) ==
  \E r \in {loadBoardPosts(store, bid, seedData, fault)} :
    Step("loadBoardPosts", kBoard(bid), bid, "", Undefined, Arr(<<>>), seedData,
         fault, Seeded(kBoard(bid), r), seedData, r)

SaveBoardPosts(bid, items, fault) ==
  \E r \in {saveBoardPosts(store, bid, items, fault)} :
    Step("saveBoardPosts", kBoard(bid), bid, "", items, Undefined, Undefined,
         fault, r.ret = True, items, r)

LoadProposals(bid, seedData, fault) ==
  \E r \in {loadProposals(store, bid, seedData, fault)} :
    Step("loadProposals", kForum(bid), bid, "", Undefined, Arr(<<>>), seedData,
         fault, Seeded(kForum(bid), r), seedData, r)

SaveProposals(bid, items, fault) ==
  \E r \in {saveProposals(store, bid, items, fault)} :
    Step("saveProposals", kForum(bid), bid, "", items, Undefined, Undefined,
         fault, r.ret = True, items, r)

LoadOpeningBalance(bid, fault) ==
  \E r \in {loadOpeningBalance(store, bid, fault)} :
    Step("loadOpeningBalance", kOpeningBalance(bid), bid, "", Undefined, Undefined,
         Undefined, fault, Seeded(kOpeningBalance(bid), r), Num(0), r)

SaveOpeningBalance(bid, val, fault) ==
  \E r \in {saveOpeningBalance(store, bid, val, fault)} :
    Step("saveOpeningBalance", kOpeningBalance(bid), bid, "", val, Undefined,
         Undefined, fault, r.ret = True, val, r)

LoadReadMap(bid, kind, fault) ==
  \E r \in {loadReadMap(store, bid, kind, fault)} :
    Step("loadReadMap", kRead(bid, kind), bid, kind, Undefined, Obj(<<>>), Undefined,
         fault, Seeded(kRead(bid, kind), r), Undefined, r)

SaveReadMap(bid, kind, map, fault) ==
  \E r \in {saveReadMap(store, bid, kind, map, fault)} :
    Step("saveReadMap", kRead(bid, kind), bid, kind, map, Undefined, Undefined,
         fault, r.ret = True, map, r)

(***************************************************************************)
(* The opening balance of two tenants, on a backend that may already hold  *)
(* a string under either key.                                              *)
(***************************************************************************)
Tenants == {"b1", "b2"}

BalancePayloads == {"", "abc", "150.5", "Infinity", " 7 "}

BalanceArgs ==
  {Undefined, Null, Num(0), Num(-20), Tenths(1505), NaN, Infinity,
   Str("abc"), Str("12"), True, Arr(<<>>), Obj(<<>>)}

InitBalance ==
  /\ store \in Stores({kOpeningBalance(b) : b \in Tenants}, BalancePayloads)
  /\ origin = Stored(store)
  /\ last = NoCall
  /\ clock = 0
  /\ calls = 0
  /\ saved = <<>>

NextBalance ==
  \/ \E bid \in Tenants, fault \in Faults :
       LoadOpeningBalance(bid, fault) /\ UNCHANGED <<calls, saved>>
  \/ \E bid \in Tenants, val \in BalanceArgs, fault \in {"none", "set"} :
       SaveOpeningBalance(bid, val, fault) /\ UNCHANGED <<calls, saved>>

SpecBalance == InitBalance /\ [][NextBalance]_vars

(***************************************************************************)
(* The dues of two tenants, on a backend that may already hold a string    *)
(* under either key, with a clock that moves from month to month.          *)
(***************************************************************************)
\* November 2025, so that the clock crosses a year's end.
FirstMonth == 2025 * 12 + 10

MaxTicks == 2

\* Strings found under a dues key: empty, not JSON, JSON null, an array, and
\* records that lack a field or hold a wrong one.
DuesPayloads ==
  {"", "{bad", "null", "[1]",
   "{\"paymentsByUser\":{\"u1\":100}}",
   "{\"monthlyFee\":\"abc\",\"startMonth\":\"2024-03\"}",
   "{\"monthlyFee\":null,\"startMonth\":[],\"paymentsByUser\":7}"}

\* Values given to saveDues: a well-formed record, records with a wrong
\* field, and values that are no record at all.
DuesArgs ==
  {Null, Num(5), Str("abc"),
   Obj(<<Entry("monthlyFee", Num(1500)), Entry("startMonth", Str("2025-01")),
         Entry("paymentsByUser", Obj(<<Entry("u1", Num(100))>>))>>),
   Obj(<<Entry("monthlyFee", Str("1800"))>>),
   Obj(<<Entry("monthlyFee", Infinity), Entry("startMonth", Num(0))>>)}

InitDues ==
  /\ store \in Stores({kDues(b) : b \in Tenants}, DuesPayloads)
  /\ origin = Stored(store)
  /\ last = NoCall
  /\ clock = FirstMonth
  /\ calls = 0
  /\ saved = <<>>

Tick ==
  /\ clock < FirstMonth + MaxTicks
  /\ clock' = clock + 1
  /\ UNCHANGED <<store, origin, last, calls, saved>>

NextDues ==
  \/ \E bid \in Tenants, fault \in Faults : LoadDues(bid, fault) /\ UNCHANGED <<calls, saved>>
  \/ \E bid \in Tenants, obj \in DuesArgs, fault \in {"none", "set"} :
       SaveDues(bid, obj, fault) /\ UNCHANGED <<calls, saved>>
  \/ Tick

SpecDues == InitDues /\ [][NextDues]_vars

(***************************************************************************)
(* All the accessors together, from an empty backend, for a bounded number *)
(* of calls.  The identifiers are strings the key builders accept like any *)
(* other: two of them hold the separator the builders put between the      *)
(* parts of a key.                                                         *)
(***************************************************************************)
MaxCalls == 2

TenantIds == {"t1", "x__t1"}

Kinds == {"board", "board__x"}

Records == {Null, Arr(<<Str("x")>>), Obj(<<Entry("item1", Num(123))>>)}

SeedRows == {Null, Arr(<<Str("seed")>>)}

Amounts == {Tenths(1505), Str("abc")}

InitEntities ==
  /\ store = NoStore
  /\ origin = NoStore
  /\ last = NoCall
  /\ clock = FirstMonth
  /\ calls = 0
  /\ saved = <<>>

Counted == calls < MaxCalls /\ calls' = calls + 1 /\ UNCHANGED saved

NextEntities ==
  \/ /\ Counted
     /\ \E fault \in Faults : LoadBuildingsDB(fault)
  \/ /\ Counted
     /\ \E rows \in Records, fault \in {"none", "set"} : SaveBuildingsDB(rows, fault)
  \/ /\ Counted
     /\ \E fault \in Faults : LoadUsersDB(fault)
  \/ /\ Counted
     /\ \E rows \in Records, fault \in {"none", "set"} : SaveUsersDB(rows, fault)
  \/ /\ Counted
     /\ \E bid \in TenantIds, fault \in Faults : LoadDues(bid, fault)
  \/ /\ Counted
     /\ \E bid \in TenantIds, obj \in Records, fault \in {"none", "set"} :
          SaveDues(bid, obj, fault)
  \/ /\ Counted
     /\ \E bid \in TenantIds, seedData \in SeedRows, fault \in Faults :
          LoadItems(bid, seedData, fault)
  \/ /\ Counted
     /\ \E bid \in TenantIds, items \in Records, fault \in {"none", "set"} :
          SaveItems(bid, items, fault)
  \/ /\ Counted
     /\ \E bid \in TenantIds, seedData \in SeedRows, fault \in Faults :
          LoadFirms(bid, seedData, fault)
  \/ /\ Counted
     /\ \E bid \in TenantIds, items \in Records, fault \in {"none", "set"} :
          SaveFirms(bid, items, fault)
  \/ /\ Counted
     /\ \E bid \in TenantIds, seedData \in SeedRows, fault \in Faults :
          LoadBoardPosts(bid, seedData, fault)
  \/ /\ Counted
     /\ \E bid \in TenantIds, items \in Records, fault \in {"none", "set"} :
          SaveBoardPosts(bid, items, fault)
  \/ /\ Counted
     /\ \E bid \in TenantIds, seedData \in SeedRows, fault \in Faults :
          LoadProposals(bid, seedData, fault)
  \/ /\ Counted
     /\ \E bid \in TenantIds, items \in Records, fault \in {"none", "set"} :
          SaveProposals(bid, items, fault)
  \/ /\ Counted
     /\ \E bid \in TenantIds, fault \in Faults : LoadOpeningBalance(bid, fault)
  \/ /\ Counted
     /\ \E bid \in TenantIds, val \in Amounts, fault \in {"none", "set"} :
          SaveOpeningBalance(bid, val, fault)
  \/ /\ Counted
     /\ \E bid \in TenantIds, kind \in Kinds, fault \in Faults :
          LoadReadMap(bid, kind, fault)
  \/ /\ Counted
     /\ \E bid \in TenantIds, kind \in Kinds, map \in Records, fault \in {"none", "set"} :
          SaveReadMap(bid, kind, map, fault)

SpecEntities == InitEntities /\ [][NextEntities]_vars

(***************************************************************************)
(* Saves and loads of one key: the calls of a run all use the key of its   *)
(* first call, and the values of the successful saves are kept in order.   *)
(***************************************************************************)
MaxSaves == 3

OverwriteValues ==
  {Null, Arr(<<Str("x")>>), Obj(<<Entry("item1", Num(123))>>),
   Obj(<<Entry("monthlyFee", Num(1500)), Entry("startMonth", Str("2025-01")),
         Entry("paymentsByUser", Obj(<<Entry("u1", Num(100))>>))>>)}

OverwriteAmounts == {Num(0), Tenths(1505), Str("abc")}

\* The seeds of the adapter, and one that JSON does not represent.
OverwriteSeeds == Seeds \cup {NaN}

Loads ==
  {"loadFromStorage", "loadBuildingsDB", "loadUsersDB", "loadDues", "loadItems",
   "loadFirms", "loadBoardPosts", "loadProposals", "loadOpeningBalance", "loadReadMap"}

Saves ==
  {"saveToStorage", "saveBuildingsDB", "saveUsersDB", "saveDues", "saveItems",
   "saveFirms", "saveBoardPosts", "saveProposals", "saveOpeningBalance", "saveReadMap"}

InitOverwrite ==
  /\ store = NoStore
  /\ origin = NoStore
  /\ last = NoCall
  /\ clock = FirstMonth
  /\ calls = 0
  /\ saved = <<>>

\* The run has used no key yet, or this one.
SameKey(key) == last.op = "none" \/ last.key = key

\* The call just made is entered in saved if it is a save that succeeded.
Kept ==
  /\ saved' = IF last'.op \in Saves /\ last'.ret = True
                THEN Append(saved, last'.v)
                ELSE saved
  /\ UNCHANGED calls

MaySave == Len(saved) < MaxSaves

NextOverwrite ==
  \/ \E d \in Defaults, s \in OverwriteSeeds, fault \in Faults :
       SameKey("k1") /\ LoadFromStorage("k1", d, s, fault) /\ Kept
  \/ \E v \in OverwriteValues, fault \in {"none", "set"} :
       SameKey("k1") /\ MaySave /\ SaveToStorage("k1", v, fault) /\ Kept
  \/ \E fault \in Faults :
       SameKey(KEY_BUILDINGS_DB) /\ LoadBuildingsDB(fault) /\ Kept
  \/ \E rows \in OverwriteValues, fault \in {"none", "set"} :
       SameKey(KEY_BUILDINGS_DB) /\ MaySave /\ SaveBuildingsDB(rows, fault) /\ Kept
  \/ \E fault \in Faults :
       SameKey(KEY_USERS_DB) /\ LoadUsersDB(fault) /\ Kept
  \/ \E rows \in OverwriteValues, fault \in {"none", "set"} :
       SameKey(KEY_USERS_DB) /\ MaySave /\ SaveUsersDB(rows, fault) /\ Kept
  \/ \E fault \in Faults :
       SameKey(kDues("t1")) /\ LoadDues("t1", fault) /\ Kept
  \/ \E obj \in OverwriteValues, fault \in {"none", "set"} :
       SameKey(kDues("t1")) /\ MaySave /\ SaveDues("t1", obj, fault) /\ Kept
  \/ \E seedData \in SeedRows, fault \in Faults :
       SameKey(kFinanceItems("t1")) /\ LoadItems("t1", seedData, fault) /\ Kept
  \/ \E items \in OverwriteValues, fault \in {"none", "set"} :
       SameKey(kFinanceItems("t1")) /\ MaySave /\ SaveItems("t1", items, fault) /\ Kept
  \/ \E seedData \in SeedRows, fault \in Faults :
       SameKey(kFirms("t1")) /\ LoadFirms("t1", seedData, fault) /\ Kept
  \/ \E firms \in OverwriteValues, fault \in {"none", "set"} :
       SameKey(kFirms("t1")) /\ MaySave /\ SaveFirms("t1", firms, fault) /\ Kept
  \/ \E seedData \in SeedRows, fault \in Faults :
       SameKey(kBoard("t1")) /\ LoadBoardPosts("t1", seedData, fault) /\ Kept
  \/ \E items \in OverwriteValues, fault \in {"none", "set"} :
       SameKey(kBoard("t1")) /\ MaySave /\ SaveBoardPosts("t1", items, fault) /\ Kept
  \/ \E seedData \in SeedRows, fault \in Faults :
       SameKey(kForum("t1")) /\ LoadProposals("t1", seedData, fault) /\ Kept
  \/ \E items \in OverwriteValues, fault \in {"none", "set"} :
       SameKey(kForum("t1")) /\ MaySave /\ SaveProposals("t1", items, fault) /\ Kept
  \/ \E fault \in Faults :
       SameKey(kOpeningBalance("t1")) /\ LoadOpeningBalance("t1", fault) /\ Kept
  \/ \E val \in OverwriteAmounts, fault \in {"none", "set"} :
       SameKey(kOpeningBalance("t1")) /\ MaySave /\ SaveOpeningBalance("t1", val, fault)
         /\ Kept
  \/ \E fault \in Faults :
       SameKey(kRead("t1", "board")) /\ LoadReadMap("t1", "board", fault) /\ Kept
  \/ \E map \in OverwriteValues, fault \in {"none", "set"} :
       SameKey(kRead("t1", "board")) /\ MaySave /\ SaveReadMap("t1", "board", map, fault)
         /\ Kept

SpecOverwrite == InitOverwrite /\ [][NextOverwrite]_vars

(***************************************************************************)
(* The month arithmetic of dateUtils.js.                                   *)
(***************************************************************************)
\* String.prototype.split("-"): the parts of s from i on, cur being the part
\* read so far.
RECURSIVE Split(_, _, _)
Split(s, i, cur) ==
  IF i > Len(s) THEN <<cur>>
  ELSE IF Ch(s, i) = "-" THEN <<cur>> \o Split(s, i + 1, "")
  ELSE Split(s, i + 1, cur \o Ch(s, i))

ymToIndex(ym) ==
  LET parts == Split(ToStr(Or(ym, Str(""))), 1, "")
      y == StringToNumber(parts[1])
      m == IF Len(parts) >= 2 THEN StringToNumber(parts[2]) ELSE Undefined
  IN IF ~IsFinite(y) \/ ~IsFinite(m) THEN Num(0)
     ELSE Tenths(y.n * 12 + (m.n - 10))

\* monthsBetweenInclusive that leaves the end month out.
monthsBetweenInclusive_exclusive(startYM, endYM) ==
  LET diff == ymToIndex(endYM).n - ymToIndex(startYM).n
  IN Tenths(IF diff > 0 THEN diff ELSE 0)

\* Math.max(0, ymToIndex(endYM) - ymToIndex(startYM) + 1)
monthsBetweenInclusive(startYM, endYM) ==
  LET diff == ymToIndex(endYM).n - ymToIndex(startYM).n + 10
  IN Tenths(IF diff > 0 THEN diff ELSE 0)

(***************************************************************************)
(* Calls of ymToIndex and monthsBetweenInclusive.  A run has two inputs,   *)
(* each a year-month string of a few years around the first month of the   *)
(* clock or a value that is no year-month: it passes them both to          *)
(* monthsBetweenInclusive, or one after the other to ymToIndex.  last is   *)
(* the call just made: its argument a, the other input b (the second       *)
(* argument of monthsBetweenInclusive) and its result.                     *)
(***************************************************************************)
MaxYears == 3

Years == (FirstMonth \div 12 - 1)..(FirstMonth \div 12 + MaxYears - 2)

YearMonths == {NatToString(y) \o "-" \o PadStart2(NatToString(m)) : y \in Years, m \in 1..12}

NotYearMonths ==
  {Undefined, Null, Num(0), Num(202512), Str("abc"), Str("2025"), Str("2025-ab"),
   Str("2025-"), Str("-5"), Str("2025-1"), Str("2025-00"), Str("2025-13"),
   Str("2025-12-31"), Str("2025/12")}

MonthInputs == {Str(s) : s \in YearMonths} \cup NotYearMonths

DateCall(op, a, b, ret) == [op |-> op, a |-> a, b |-> b, ret |-> ret]

InitMonths ==
  /\ store = NoStore
  /\ origin = NoStore
  /\ \E a \in MonthInputs, b \in MonthInputs : last = DateCall("none", a, b, Undefined)
  /\ clock = FirstMonth
  /\ calls = 0
  /\ saved = <<>>

\* ymToIndex on the first input, then on the other one, and so on in turn.
YmToIndex ==
  /\ last.op \in {"none", "ymToIndex"}
  /\ \E ym \in {IF last.op = "none" THEN last.a ELSE last.b} :
       last' = DateCall("ymToIndex", ym, IF last.op = "none" THEN last.b ELSE last.a,
                        ymToIndex(ym))
  /\ UNCHANGED <<store, origin, clock, calls, saved>>

MonthsBetweenInclusive ==
  /\ last.op = "none"
  /\ last' = DateCall("monthsBetweenInclusive", last.a, last.b,
                      monthsBetweenInclusive(last.a, last.b))
  /\ UNCHANGED <<store, origin, clock, calls, saved>>

NextMonths == YmToIndex \/ MonthsBetweenInclusive

SpecMonths == InitMonths /\ [][NextMonths]_vars

(***************************************************************************)
(* Properties.                                                             *)
(***************************************************************************)
\* A value JSON represents as itself: no undefined, no NaN or Infinity, no
\* named property on an array.
RECURSIVE Serializable(_)
Serializable(v) ==
  CASE v.t \in {"null", "bool", "str"} -> TRUE
    [] v.t = "num" -> IsFinite(v)
    [] v.t = "arr" -> \A x \in 1..Len(v.a) : IsElement(v.a[x]) /\ Serializable(v.a[x])
    [] v.t = "obj" -> \A x \in 1..Len(v.a) : Serializable(v.a[x].a[1])
    [] OTHER -> FALSE

\* Deep equality: arrays element by element, objects key by key whatever the
\* order of their entries.
RECURSIVE DeepEqual(_, _)
DeepEqual(x, y) ==
  IF x.t # y.t THEN FALSE
  ELSE IF x.t = "arr"
    THEN /\ Len(x.a) = Len(y.a)
         /\ \A i \in 1..Len(x.a) :
              IF IsEntry(x.a[i]) THEN x.a[i] = y.a[i] ELSE DeepEqual(x.a[i], y.a[i])
  ELSE IF x.t = "obj"
    THEN /\ Len(x.a) = Len(y.a)
         /\ \A i \in 1..Len(x.a) :
              \E j \in 1..Len(y.a) :
                y.a[j].s = x.a[i].s /\ DeepEqual(x.a[i].a[1], y.a[j].a[1])
  ELSE x = y

\* The call just made is op, and the backend worked during it.
Ran(op) == last.op = op /\ last.fault = "none"

\* What was under the key of the last call before it: whether anything, and
\* the call and value that had written it.
PreHas == last.was # Null

PreSource == last.src

\* The last call left the backend as it found it.
NoWrite == last.wrote = {}

\* The last call changed nothing but what is under its own key.
OnlyOwnKey == last.wrote \subseteq {last.key}

\* The default and the seed the last call ran with.
DefaultOf(c) == Param(c.d, Arr(<<>>))

SeedOf(c) == Param(c.s, Null)

(***************************************************************************)
(* C1, as stated: a load of a key whose stored string was written by a     *)
(* successful saveToStorage(key, v), v any serializable value, null        *)
(* included, returns a value deep-equal to v, whatever the default and the *)
(* seed.                                                                   *)
(***************************************************************************)
C1_RoundTripAny ==
  (Ran("loadFromStorage") /\ PreHas /\ PreSource.by = "saveToStorage"
     /\ Serializable(PreSource.val))
    => DeepEqual(last.ret, PreSource.val)

(***************************************************************************)
(* C1, amended: a load of a key whose stored string was written by a       *)
(* successful saveToStorage(key, v) returns a value deep-equal to v for    *)
(* every serializable v other than null, whatever the default and the      *)
(* seed; after a save of null it returns the default.                      *)
(***************************************************************************)
C1_RoundTripNonNull ==
  (Ran("loadFromStorage") /\ PreHas /\ PreSource.by = "saveToStorage"
     /\ Serializable(PreSource.val))
    => /\ PreSource.val # Null => DeepEqual(last.ret, PreSource.val)
       /\ PreSource.val = Null => last.ret = DefaultOf(last)
       /\ NoWrite

C1_Witness ==
  /\ Ran("loadFromStorage") /\ PreHas /\ PreSource.by = "saveToStorage"
  /\ PreSource.val.t = "obj"
  /\ SeedOf(last) # Null
  /\ last.ret = PreSource.val

(***************************************************************************)
(* C2: a load without a seed of a key that holds nothing returns the       *)
(* default it was given (the empty array when none was given) and writes   *)
(* nothing; the key still holds nothing, and a load that follows it on the *)
(* same key, again without a seed, returns its own default.                *)
(***************************************************************************)
C2_NoSeedLoad(c) == c.op = "loadFromStorage" /\ SeedOf(c) = Null /\ c.was = Null

C2_EphemeralDefault ==
  /\ [](C2_NoSeedLoad(last) =>
          /\ last.ret = DefaultOf(last)
          /\ NoWrite
          /\ ~Has(store, last.key))
  /\ [][(C2_NoSeedLoad(last) /\ last'.op = "loadFromStorage"
           /\ last'.key = last.key /\ SeedOf(last') = Null)
          => /\ last'.ret = DefaultOf(last')
             /\ store' = store]_vars

C2_Witness ==
  /\ C2_NoSeedLoad(last)
  /\ last.fault = "none"
  /\ last.d = Str("d1")
  /\ last.ret = Str("d1")
  /\ Has(store, "k2") /\ ~Has(store, last.key)

(***************************************************************************)
(* C3: with the backend accepting the write, a load with a seed s (a value *)
(* JSON represents) of a key that holds nothing returns s and leaves       *)
(* JSON.stringify(s) under the key and every other key alone; a later load *)
(* of the key, while the seed is what it holds, returns a value equal to   *)
(* s, whatever its default.                                                *)
(***************************************************************************)
C3_SeedOnFirstAccess ==
  /\ (Ran("loadFromStorage") /\ ~PreHas /\ SeedOf(last) # Null
        /\ Serializable(SeedOf(last)))
       => /\ last.ret = last.s
          /\ Has(store, last.key)
          /\ Str(store[last.key]) = JSONstringify(last.s)
          /\ OnlyOwnKey
  /\ (Ran("loadFromStorage") /\ PreHas /\ PreSource.by = "loadFromStorage"
        /\ Serializable(PreSource.val))
       => /\ DeepEqual(last.ret, PreSource.val)
          /\ NoWrite

C3_Witness ==
  /\ Ran("loadFromStorage") /\ PreHas /\ PreSource.by = "loadFromStorage"
  /\ SeedOf(last) = Null
  /\ last.d = Str("d1")
  /\ last.ret = Num(0)

(***************************************************************************)
(* C4: a saveToStorage whose write the backend rejects returns false,      *)
(* raises nothing, and leaves under every key what was there before.       *)
(***************************************************************************)
C4_FailedSave ==
  (last.op = "saveToStorage" /\ last.fault = "set")
    => /\ last.ret = False
       /\ ~last.threw
       /\ NoWrite

C4_Witness ==
  /\ last.op = "saveToStorage" /\ last.fault = "set"
  /\ PreHas /\ PreSource.by = "saveToStorage"
  /\ last.ret = False
  /\ Str(store[last.key]) = last.was


(***************************************************************************)
(* C11: a load without a seed of a key that holds a string that is not     *)
(* valid JSON (the empty string, "{bad", the "undefined" a save of         *)
(* undefined leaves) returns its default and raises nothing, whether or    *)
(* not the backend works.                                                  *)
(***************************************************************************)
C11_CorruptAbsorbed ==
  (last.op = "loadFromStorage" /\ PreHas /\ SeedOf(last) = Null)
    => /\ last.was \in {Str(""), Str("{bad"), Str("undefined")}
            => (last.ret = DefaultOf(last) /\ ~last.threw)
       /\ JSONparse(last.was.s).threw
            => (last.ret = DefaultOf(last) /\ ~last.threw)

C11_Witness ==
  /\ Ran("loadFromStorage") /\ SeedOf(last) = Null
  /\ last.was = Str("{bad") /\ PreSource.by = "stored"
  /\ last.d = Str("d1")
  /\ last.ret = Str("d1")
  /\ store[last.key] = "{bad"

(***************************************************************************)
(* C12, as stated: with the backend working, a load with a seed of a key   *)
(* that holds a string that fails to deserialize (the empty string         *)
(* included) or deserializes to null returns its default, and leaves the   *)
(* backend as it was.                                                      *)
(***************************************************************************)
C12_Unreadable(text) == \E p \in {JSONparse(text)} : p.threw \/ p.v = Null

C12_UnreadableKeepsPayload ==
  (Ran("loadFromStorage") /\ PreHas /\ SeedOf(last) # Null
     /\ C12_Unreadable(last.was.s))
    => /\ last.ret = DefaultOf(last)
       /\ NoWrite

(***************************************************************************)
(* C13: a load of a key whose stored string deserializes to a value x      *)
(* other than null returns x, whatever its default and its seed, and       *)
(* leaves the backend as it was; getItem is taken to work.                 *)
(***************************************************************************)
C13_StoredValueWins ==
  (last.op = "loadFromStorage" /\ last.fault # "get" /\ PreHas)
    => /\ last.was = Str(" [7] ") => (last.ret = Arr(<<Num(7)>>) /\ NoWrite)
       /\ last.was = Str("0") => (last.ret = Num(0) /\ NoWrite)
       /\ \E p \in {JSONparse(last.was.s)} :
            (~p.threw /\ ~IsNullish(p.v)) => (last.ret = p.v /\ NoWrite)

C13_Witness ==
  /\ Ran("loadFromStorage")
  /\ last.was = Str("0")
  /\ last.d = Str("d1") /\ SeedOf(last).t = "arr"
  /\ last.ret = Num(0)
  /\ store[last.key] = "0"


(***************************************************************************)
(* C9, as stated: whatever string is stored under the key and whatever     *)
(* saveOpeningBalance was given, a loadOpeningBalance that returns,        *)
(* returns a finite number, and zero when the stored string is not a       *)
(* finite number.                                                          *)
(***************************************************************************)
C9_AlwaysFinite ==
  (last.op = "loadOpeningBalance" /\ ~last.threw)
    => /\ IsFinite(last.ret)
       /\ (PreHas /\ ~IsFinite(StringToNumber(last.was.s))) => last.ret = Num(0)

(***************************************************************************)
(* C10: with the backend working, loadOpeningBalance returns 0 and writes  *)
(* nothing when the stored string is not numeric ("abc"); returns the      *)
(* number and writes nothing when the stored string is the decimal form of *)
(* a number ("150.5" gives 150.5); and, when nothing is stored, writes "0" *)
(* under the key, and under no other, and returns 0.                       *)
(***************************************************************************)
C10_Decimal(text) ==
  IsFinite(StringToNumber(text)) /\ NumberToString(StringToNumber(text)) = text

C10_ReadCases ==
  Ran("loadOpeningBalance") =>
    /\ last.was = Str("abc") => (last.ret = Num(0) /\ NoWrite)
    /\ (PreHas /\ Truthy(last.was) /\ StringToNumber(last.was.s) = NaN)
         => (last.ret = Num(0) /\ NoWrite)
    /\ last.was = Str("150.5") => (last.ret = Tenths(1505) /\ NoWrite)
    /\ (PreHas /\ C10_Decimal(last.was.s))
         => (last.ret = StringToNumber(last.was.s) /\ NoWrite)
    /\ ~PreHas => /\ last.ret = Num(0)
                  /\ Has(store, last.key) /\ store[last.key] = "0"
                  /\ last.wrote = {last.key}

C10_Witness ==
  /\ Ran("loadOpeningBalance")
  /\ ~PreHas
  /\ last.ret = Num(0)
  /\ store[last.key] = "0"
  /\ \E k \in DOMAIN store : store[k] = "abc"


(***************************************************************************)
(* C21: with the backend working, a loadOpeningBalance of a key whose      *)
(* string a successful saveOpeningBalance(bid, v) wrote returns v when v   *)
(* is a finite number, returns 0 when v is absent, null, zero or converts  *)
(* to no number, and in every case leaves the backend as it was.           *)
(***************************************************************************)
C21_BalanceRoundTrip ==
  (Ran("loadOpeningBalance") /\ PreHas /\ PreSource.by = "saveOpeningBalance")
    => \E v \in {PreSource.val} :
         /\ NoWrite
         /\ IsFinite(v) => last.ret = v
         /\ (v \in {Undefined, Null, Num(0)} \/ ToNumber(v) = NaN) => last.ret = Num(0)

C21_Witness ==
  /\ Ran("loadOpeningBalance")
  /\ PreSource = Source("saveOpeningBalance", Tenths(1505))
  /\ last.ret = Tenths(1505)
  /\ store[last.key] = "150.5"
  /\ \E k \in DOMAIN store : origin[k] = Source("saveOpeningBalance", Str("abc"))


(***************************************************************************)
(* C6, as stated: whatever is stored under the dues key (nothing, a        *)
(* string that is not JSON, any JSON value, a record written by saveDues), *)
(* the value loadDues returns has monthlyFee a finite number, startMonth a *)
(* non-empty string and paymentsByUser a mapping.                          *)
(***************************************************************************)
C6_IsDuesRecord(v) ==
  /\ IsFinite(GetProp(v, "monthlyFee"))
  /\ GetProp(v, "startMonth").t = "str" /\ GetProp(v, "startMonth").s # ""
  /\ GetProp(v, "paymentsByUser").t = "obj"

C6_DuesInvariant == (last.op = "loadDues" /\ ~last.threw) => C6_IsDuesRecord(last.ret)


(***************************************************************************)
(* C14.  The value of the last successful save of the run, and what the    *)
(* load just made returns on a backend that has seen that save alone.      *)
(***************************************************************************)
C14_LastSaved == saved[Len(saved)]

C14_AfterLastAlone(c, v) ==
  CASE c.op = "loadFromStorage" ->
         loadFromStorage(saveToStorage(NoStore, c.key, v, "none").st,
                         c.key, c.d, c.s, "none")
    [] c.op = "loadBuildingsDB" ->
         loadBuildingsDB(saveBuildingsDB(NoStore, v, "none").st, "none")
    [] c.op = "loadUsersDB" ->
         loadUsersDB(saveUsersDB(NoStore, v, "none").st, "none")
    [] c.op = "loadDues" ->
         loadDues(saveDues(NoStore, c.bid, v, "none").st, c.bid, clock, "none")
    [] c.op = "loadItems" ->
         loadItems(saveItems(NoStore, c.bid, v, "none").st, c.bid, c.s, "none")
    [] c.op = "loadFirms" ->
         loadFirms(saveFirms(NoStore, c.bid, v, "none").st, c.bid, c.s, "none")
    [] c.op = "loadBoardPosts" ->
         loadBoardPosts(saveBoardPosts(NoStore, c.bid, v, "none").st, c.bid, c.s, "none")
    [] c.op = "loadProposals" ->
         loadProposals(saveProposals(NoStore, c.bid, v, "none").st, c.bid, c.s, "none")
    [] c.op = "loadOpeningBalance" ->
         loadOpeningBalance(saveOpeningBalance(NoStore, c.bid, v, "none").st,
                            c.bid, "none")
    [] c.op = "loadReadMap" ->
         loadReadMap(saveReadMap(NoStore, c.bid, c.kind, v, "none").st,
                     c.bid, c.kind, "none")

\* The values a save / load pair gives back as they were saved.
C14_Kept(op, v) ==
  CASE op = "loadOpeningBalance" -> IsFinite(v)
    [] op = "loadDues" -> Serializable(v) /\ v.t = "obj" /\ C6_IsDuesRecord(v)
    [] op = "loadUsersDB" -> Serializable(v) /\ Truthy(v)
    [] OTHER -> Serializable(v) /\ v # Null

(***************************************************************************)
(* C14, as stated: after any sequence of successful saves to one key, by   *)
(* saveToStorage or by the save of an entity, a load of the key with the   *)
(* backend working returns a value deep-equal to the value of the last     *)
(* save.                                                                   *)
(***************************************************************************)
C14_LastWriteWinsAny ==
  (last.op \in Loads /\ last.fault = "none" /\ saved # <<>>)
    => DeepEqual(last.ret, C14_LastSaved)

(***************************************************************************)
(* C14, amended: after any sequence of successful saves to one key, a load *)
(* of the key with the backend working writes nothing and returns what it  *)
(* returns when the last save is the only one ever made: a value           *)
(* deep-equal to the last saved value when the pair gives that value back  *)
(* (serializable and not null; not falsy for the users roster; a           *)
(* well-formed record for dues; a finite number for the opening balance),  *)
(* and nothing of an earlier value in any case.                            *)
(***************************************************************************)
C14_LastWriteWins ==
  (last.op \in Loads /\ last.fault = "none" /\ saved # <<>>)
    => /\ NoWrite
       /\ \E alone \in {C14_AfterLastAlone(last, C14_LastSaved)} :
            /\ last.ret = alone.ret
            /\ store = alone.st
       /\ C14_Kept(last.op, C14_LastSaved) => DeepEqual(last.ret, C14_LastSaved)

C14_Witness ==
  /\ Ran("loadItems")
  /\ Len(saved) = 3
  /\ GetProp(saved[1], "monthlyFee") = Num(1500)
  /\ saved[2] = Arr(<<Str("x")>>)
  /\ saved[3] = Obj(<<Entry("item1", Num(123))>>)
  /\ last.ret = saved[3]
  /\ GetProp(last.ret, "monthlyFee") = Undefined


(***************************************************************************)
(* Dues: the month of the call just made, as loadDues formats it, and the  *)
(* value the stored string of that call parses to.                         *)
(***************************************************************************)
CallMonth == GetProp(last.s, "startMonth")

StoredRecord == JSONparse(last.was.s)

\* loadDues has just run, getItem worked, and the key held a JSON object.
LoadedRecord ==
  /\ last.op = "loadDues" /\ last.fault # "get"
  /\ PreHas
  /\ ~StoredRecord.threw /\ StoredRecord.v.t = "obj"

(***************************************************************************)
(* C15: a loadDues of a key that holds a string (other than the empty one) *)
(* leaves the backend as it was, so that the key holds after the call the  *)
(* string it held before; when the string is a JSON object, the call       *)
(* returns the object with its three fields normalized, while the          *)
(* malformed fields stay in the backend.                                   *)
(***************************************************************************)
C15_ReadTimeRepair ==
  /\ (last.op = "loadDues" /\ PreHas /\ last.was # Str(""))
       => /\ NoWrite
          /\ Str(store[last.key]) = last.was
  /\ LoadedRecord => last.ret = NormalizeDues(StoredRecord.v, CallMonth.s)
  /\ (LoadedRecord /\ GetProp(StoredRecord.v, "monthlyFee") = Null)
       => /\ GetProp(last.ret, "monthlyFee") = Num(2000)
          /\ GetProp(JSONparse(store[last.key]).v, "monthlyFee") = Null

C15_Witness ==
  /\ LoadedRecord /\ last.fault = "none"
  /\ PreSource.by = "stored"
  /\ GetProp(StoredRecord.v, "monthlyFee") = Null
  /\ GetProp(last.ret, "monthlyFee") = Num(2000)
  /\ GetProp(last.ret, "paymentsByUser") = Num(7)
  /\ Str(store[last.key]) = last.was

(***************************************************************************)
(* C16, as stated: when the key holds a JSON object, loadDues returns      *)
(* monthlyFee 2000 if the stored monthlyFee is absent, null, or not        *)
(* numeric (a string that is no number), and the stored monthlyFee itself  *)
(* if it is a finite number.                                               *)
(***************************************************************************)
C16_NotNumeric(v) == v.t # "num" /\ ToNumber(v) = NaN

C16_FeeRepair ==
  LoadedRecord =>
    \E fee \in {GetProp(StoredRecord.v, "monthlyFee")} :
      /\ (IsNullish(fee) \/ C16_NotNumeric(fee))
           => GetProp(last.ret, "monthlyFee") = Num(2000)
      /\ IsFinite(fee) => GetProp(last.ret, "monthlyFee") = fee

(***************************************************************************)
(* C17: when the key holds a JSON object, loadDues repairs each field on   *)
(* its own: a stored monthlyFee that is a finite number, a stored          *)
(* startMonth that is a non-empty string, a stored paymentsByUser that is  *)
(* a mapping are returned as stored, and an absent field gets its default  *)
(* (2000, the month of the call as YYYY-MM, the empty mapping).  From      *)
(* {"paymentsByUser":{"u1":100}} it returns monthlyFee 2000, startMonth    *)
(* the month of the call, paymentsByUser {"u1":100}.                       *)
(***************************************************************************)
C17_YYYYMM(s) ==
  /\ Len(s) = 7 /\ Ch(s, 5) = "-"
  /\ \A i \in {1, 2, 3, 4, 6, 7} : IsDigit(Ch(s, i))
  /\ DigitsVal(s, 6, 8) \in 1..12

C17_KeepsValid ==
  LoadedRecord =>
    \E fee \in {GetProp(StoredRecord.v, "monthlyFee")},
       month \in {GetProp(StoredRecord.v, "startMonth")},
       paid \in {GetProp(StoredRecord.v, "paymentsByUser")} :
      /\ IsFinite(fee) => GetProp(last.ret, "monthlyFee") = fee
      /\ fee = Undefined => GetProp(last.ret, "monthlyFee") = Num(2000)
      /\ (month.t = "str" /\ month.s # "") => GetProp(last.ret, "startMonth") = month
      /\ month = Undefined
           => /\ GetProp(last.ret, "startMonth") = CallMonth
              /\ C17_YYYYMM(GetProp(last.ret, "startMonth").s)
      /\ paid.t = "obj" => GetProp(last.ret, "paymentsByUser") = paid
      /\ paid = Undefined => GetProp(last.ret, "paymentsByUser") = Obj(<<>>)
      /\ last.was = Str("{\"paymentsByUser\":{\"u1\":100}}")
           => DeepEqual(last.ret,
                        Obj(<<Entry("monthlyFee", Num(2000)),
                              Entry("startMonth", CallMonth),
                              Entry("paymentsByUser", Obj(<<Entry("u1", Num(100))>>))>>))

C17_Witness ==
  /\ LoadedRecord /\ last.fault = "none"
  /\ last.was = Str("{\"paymentsByUser\":{\"u1\":100}}")
  /\ GetProp(last.ret, "monthlyFee") = Num(2000)
  /\ GetProp(last.ret, "startMonth") = Str("2026-01")
  /\ GetProp(last.ret, "paymentsByUser") = Obj(<<Entry("u1", Num(100))>>)

(***************************************************************************)
(* C19: with the backend working, a loadDues of a key that holds nothing   *)
(* returns {monthlyFee 2000, startMonth the month of the call,             *)
(* paymentsByUser {}} and writes it under the key alone; a later loadDues  *)
(* of the key, while that record is what it holds, returns a record equal  *)
(* to it, with the startMonth of the first call whatever the month of the  *)
(* later one, and writes nothing.                                          *)
(***************************************************************************)
C19_SeedFixed ==
  /\ (Ran("loadDues") /\ ~PreHas)
       => /\ last.ret = DuesSeed(CallMonth.s)
          /\ Has(store, last.key)
          /\ Str(store[last.key]) = JSONstringify(DuesSeed(CallMonth.s))
          /\ last.wrote = {last.key}
  /\ (last.op = "loadDues" /\ last.fault # "get" /\ PreHas /\ PreSource.by = "loadDues")
       => /\ DeepEqual(last.ret, PreSource.val)
          /\ GetProp(last.ret, "startMonth") = GetProp(PreSource.val, "startMonth")
          /\ NoWrite

C19_Witness ==
  /\ Ran("loadDues") /\ PreHas /\ PreSource.by = "loadDues"
  /\ CallMonth = Str("2026-01")
  /\ GetProp(last.ret, "startMonth") = Str("2025-11")
  /\ GetProp(last.ret, "monthlyFee") = Num(2000)
  /\ NoWrite


(***************************************************************************)
(* C18, as stated: a loadReadMap made with the backend working, as the     *)
(* first call of the run or as the second, returns the empty mapping and   *)
(* writes nothing when its (tenant, kind) pair has not been written, that  *)
(* is, unless the call before it was a successful saveReadMap of that      *)
(* pair; and after a successful saveReadMap(bid, kind, m), m a mapping, it *)
(* returns a mapping deep-equal to m.                                      *)
(***************************************************************************)
C18_WrotePair ==
  /\ calls = 1
  /\ last.op = "saveReadMap" /\ last.ret = True
  /\ last.bid = last'.bid /\ last.kind = last'.kind

C18_ReadMap ==
  [][(calls < 2 /\ last'.op = "loadReadMap" /\ last'.fault = "none")
       => /\ ~C18_WrotePair => (last'.ret = Obj(<<>>) /\ store' = store)
          /\ (C18_WrotePair /\ last.v.t = "obj") => DeepEqual(last'.ret, last.v)]_vars


(***************************************************************************)
(* C20.  The loads the claim is about, and a call of one of them, with the *)
(* backend working, that follows a call of one of them on the same key.    *)
(***************************************************************************)
C20_Loads == {"loadFromStorage", "loadOpeningBalance"}

C20_LoadAfterLoad ==
  /\ last.op \in C20_Loads /\ last.fault = "none"
  /\ last'.op \in C20_Loads /\ last'.fault = "none"
  /\ last'.key = last.key

C20_SameArguments ==
  /\ last'.op = last.op /\ last'.bid = last.bid
  /\ last'.d = last.d /\ last'.s = last.s

(***************************************************************************)
(* C20, as stated: in a sequence of loads of one key with no save in       *)
(* between, every call from the second on leaves the backend as it was,    *)
(* and a call with the arguments of the call before it returns an equal    *)
(* value.                                                                  *)
(***************************************************************************)
C20_OnlyFirstWrites ==
  [][C20_LoadAfterLoad
       => /\ store' = store
          /\ C20_SameArguments => DeepEqual(last'.ret, last.ret)]_vars

(***************************************************************************)
(* C20, amended: with the backend working, once a load has written under   *)
(* a key (the first call given a seed while the key holds nothing, or the  *)
(* first loadOpeningBalance), every later load of the key, with no save in *)
(* between, leaves the backend as it was; a load that follows a load which *)
(* wrote nothing may still write; and a call with the arguments of the     *)
(* call before it returns an equal value when its seed is a value JSON     *)
(* represents.                                                             *)
(***************************************************************************)
C20_LoadsWriteOnce ==
  [][/\ (last'.op \in C20_Loads /\ last'.fault = "none"
           /\ Has(origin, last'.key) /\ origin[last'.key].by \in C20_Loads)
          => store' = store
     /\ (C20_LoadAfterLoad /\ last.wrote # {}) => store' = store
     /\ (C20_LoadAfterLoad /\ C20_SameArguments /\ Serializable(SeedOf(last)))
          => DeepEqual(last'.ret, last.ret)]_vars

C20_Witness ==
  /\ Ran("loadFromStorage")
  /\ saved = <<>>
  /\ PreSource = Source("loadFromStorage", Num(0))
  /\ SeedOf(last).t = "arr"
  /\ last.ret = Num(0)
  /\ NoWrite
  /\ store[last.key] = "0"


(***************************************************************************)
(* C22.  A well-formed year-month is a string YYYY-MM with a month from 01 *)
(* to 12; its year and month; the calendar order of two of them; and the   *)
(* number of calendar months from one to a later one, both counted, found  *)
(* by walking the calendar month by month.                                 *)
(***************************************************************************)
C22_WellFormed(v) == v.t = "str" /\ C17_YYYYMM(v.s)

C22_Year(v) == DigitsVal(v.s, 1, 5)

C22_Month(v) == DigitsVal(v.s, 6, 8)

C22_Before(v, w) ==
  \/ C22_Year(v) < C22_Year(w)
  \/ C22_Year(v) = C22_Year(w) /\ C22_Month(v) < C22_Month(w)

RECURSIVE C22_Walk(_, _, _, _)
C22_Walk(y, m, toY, toM) ==
  IF y = toY /\ m = toM THEN 1
  ELSE IF m = 12 THEN 1 + C22_Walk(y + 1, 1, toY, toM)
  ELSE 1 + C22_Walk(y, m + 1, toY, toM)

C22_MonthsCounted(v, w) == C22_Walk(C22_Year(v), C22_Month(v), C22_Year(w), C22_Month(w))

\* What the claim says of monthsBetweenInclusive, and of ymToIndex on
\* year-months.
C22_Months ==
  last.op = "monthsBetweenInclusive" =>
    /\ IsFinite(last.ret) /\ last.ret.n >= 0
    /\ (C22_WellFormed(last.a) /\ C22_WellFormed(last.b))
         => IF C22_Before(last.b, last.a)
              THEN last.ret = Num(0)
              ELSE last.ret = Num(C22_MonthsCounted(last.a, last.b))
    /\ (last.a = last.b /\ C22_WellFormed(last.a)) => last.ret = Num(1)
    /\ (last.a = Str("2025-12") /\ last.b = Str("2026-03")) => last.ret = Num(4)

C22_Increasing ==
  (last.op = "ymToIndex" /\ last'.op = "ymToIndex"
     /\ C22_WellFormed(last.a) /\ C22_WellFormed(last'.a) /\ C22_Before(last.a, last'.a))
    => (IsFinite(last.ret) /\ IsFinite(last'.ret) /\ last.ret.n < last'.ret.n)

(***************************************************************************)
(* C22, as stated: monthsBetweenInclusive is never negative, counts the    *)
(* calendar months from start to end, both ends included, for year-months  *)
(* with start not after end (1 for equal months, 4 from 2025-12 to         *)
(* 2026-03), and is 0 when end is before start; ymToIndex is strictly      *)
(* increasing in calendar order on year-months, and returns 0 for every    *)
(* input that is not a well-formed year-month.                             *)
(***************************************************************************)
C22_MalformedIsZero ==
  /\ [](C22_Months
        /\ (last.op = "ymToIndex" /\ ~C22_WellFormed(last.a)) => last.ret = Num(0))
  /\ [][C22_Increasing]_vars

(***************************************************************************)
(* C22, amended: as stated for monthsBetweenInclusive and for ymToIndex on *)
(* year-months, where ymToIndex is year * 12 + month - 1; ymToIndex        *)
(* returns 0 for an input without a "-" and for an input whose part before *)
(* the first "-" or whose part after it converts to no finite number       *)
(* (undefined, "", "abc", "2025", "2025-ab", "2025/12"); it returns        *)
(* year * 12 + month - 1 for "2025-13", "2025-00" and "2025-1".            *)
(***************************************************************************)
C22_NoNumberParts(v) ==
  \E parts \in {Split(ToStr(Or(v, Str(""))), 1, "")} :
    \/ Len(parts) < 2
    \/ ~IsFinite(StringToNumber(parts[1]))
    \/ ~IsFinite(StringToNumber(parts[2]))

C22_MonthArithmetic ==
  /\ [](/\ C22_Months
        /\ last.op = "ymToIndex" =>
             /\ C22_WellFormed(last.a)
                  => last.ret = Num(C22_Year(last.a) * 12 + C22_Month(last.a) - 1)
             /\ C22_NoNumberParts(last.a) => last.ret = Num(0)
             /\ last.a \in {Undefined, Null, Num(0), Str("abc"), Str("2025"),
                            Str("2025-ab"), Str("2025/12")} => last.ret = Num(0)
             /\ last.a = Str("2025-13") => last.ret = Num(2025 * 12 + 12)
             /\ last.a = Str("2025-00") => last.ret = Num(2025 * 12 - 1)
             /\ last.a = Str("2025-1") => last.ret = Num(2025 * 12))
  /\ [][C22_Increasing]_vars

C22_Witness ==
  /\ last.op = "monthsBetweenInclusive"
  /\ last.a = Str("2025-12") /\ last.b = Str("2026-03")
  /\ last.ret = Num(4)


(***************************************************************************)
(* C5, as stated: no call of an accessor raises an exception to its        *)
(* caller, whatever the backend holds and whether or not its getItem or    *)
(* setItem raises.                                                         *)
(***************************************************************************)
C5_NoAccessorRaises == ~last.threw

(***************************************************************************)
(* The entity families and their keys.                                     *)
(***************************************************************************)
Families ==
  {"buildings", "users", "dues", "items", "firms", "board", "forum", "balance", "read"}

\* The key of a family for a tenant and, for the read map alone, a content kind.
KeyOf(family, bid, kind) ==
  CASE family = "buildings" -> KEY_BUILDINGS_DB
    [] family = "users" -> KEY_USERS_DB
    [] family = "dues" -> kDues(bid)
    [] family = "items" -> kFinanceItems(bid)
    [] family = "firms" -> kFirms(bid)
    [] family = "board" -> kBoard(bid)
    [] family = "forum" -> kForum(bid)
    [] family = "balance" -> kOpeningBalance(bid)
    [] family = "read" -> kRead(bid, kind)

\* The family an accessor reads or writes.
FamilyOf(op) ==
  CASE op \in {"loadBuildingsDB", "saveBuildingsDB"} -> "buildings"
    [] op \in {"loadUsersDB", "saveUsersDB"} -> "users"
    [] op \in {"loadDues", "saveDues"} -> "dues"
    [] op \in {"loadItems", "saveItems"} -> "items"
    [] op \in {"loadFirms", "saveFirms"} -> "firms"
    [] op \in {"loadBoardPosts", "saveBoardPosts"} -> "board"
    [] op \in {"loadProposals", "saveProposals"} -> "forum"
    [] op \in {"loadOpeningBalance", "saveOpeningBalance"} -> "balance"
    [] op \in {"loadReadMap", "saveReadMap"} -> "read"
    [] OTHER -> "none"

\* Identifier strings: every string of at most MaxIdLen characters over an
\* alphabet that holds the separator character of the keys.
MaxIdLen == 2

IdAlphabet == {"_", "v", "1"}

RECURSIVE StringsUpTo(_)
StringsUpTo(n) ==
  IF n = 0 THEN {""}
  ELSE LET shorter == StringsUpTo(n - 1)
       IN shorter \cup {s \o c : s \in shorter, c \in IdAlphabet}

IdStrings == StringsUpTo(MaxIdLen) \cup TenantIds \cup Kinds

\* The keys a family can build from the identifier strings.
FamilyKeys ==
  [f \in Families |-> {KeyOf(f, bid, kind) : bid \in IdStrings, kind \in IdStrings}]

\* The identities (tenant, and for the read map, kind) for which the family
\* builds each of its keys.
Identity(f, bid, kind) == <<bid, IF f = "read" THEN kind ELSE "">>

KeyOwners ==
  [f \in Families |->
     [key \in FamilyKeys[f] |->
        {Identity(f, bid, kind) : <<bid, kind>> \in
           {p \in IdStrings \X IdStrings : KeyOf(f, p[1], p[2]) = key}}]]

(***************************************************************************)
(* C7, as stated: the key a call of a per-tenant accessor uses is the key  *)
(* of no other tenant, and the key a call of a read-map accessor uses is   *)
(* the key of no other (tenant, kind) pair; so a call writes under the key *)
(* of no other tenant or pair.                                             *)
(***************************************************************************)
C7_KeyIsolation ==
  FamilyOf(last.op) \notin {"none", "buildings", "users"} =>
    /\ KeyOwners[FamilyOf(last.op)][last.key] = {<<last.bid, last.kind>>}
    /\ \A key \in last.wrote :
         KeyOwners[FamilyOf(last.op)][key] = {<<last.bid, last.kind>>}

(***************************************************************************)
(* C8: two different families never build the same key, whatever the       *)
(* tenant identifiers and content kinds; and a call of an accessor writes  *)
(* under no key of another family.                                         *)
(***************************************************************************)
C8_KeysDisjoint ==
  \A f \in Families : \A g \in Families \ {f} : FamilyKeys[f] \cap FamilyKeys[g] = {}

C8_FamilyDisjointness ==
  /\ C8_KeysDisjoint
  /\ FamilyOf(last.op) # "none" =>
       \A g \in Families \ {FamilyOf(last.op)} : last.wrote \cap FamilyKeys[g] = {}

C8_Witness ==
  /\ last.op = "saveDues" /\ last.ret = True
  /\ last.wrote = {kDues(last.bid)}
  /\ Has(store, kRead(last.bid, "board"))
  /\ origin[kRead(last.bid, "board")].by = "saveReadMap"

=============================================================================
